---------------------------- MODULE Spec2Model ----------------------------
(***************************************************************************)
(* Model of the two scripts of insulin-time-action-visualizer:             *)
(*                                                                         *)
(*   calculate.py  the accumulation of half-life decayed doses at a list   *)
(*                 of target times (lines 63-77);                          *)
(*   bac.py        the linear elimination step of the blood alcohol        *)
(*                 estimate (lines 26-30).                                 *)
(*                                                                         *)
(* Times are whole hours.  Python floats are modelled in fixed point:      *)
(* a quantity q is the integer floor(q * Scale).  0.5 ** (a / b) is the    *)
(* exact integer floor(Scale * 2^(-a/b)), found as an integer root, so     *)
(* the decay is computed, not assumed.  The half-lives of the table are    *)
(* rounded to whole hours.                                                 *)
(***************************************************************************)
EXTENDS Integers, Sequences, FiniteSets, TLC

---------------------------------------------------------------------------
\* Bounds of the model.

\* the longest list of medication events
MaxEvents == 2
\* event times and target times are 0 .. MaxTime (hours)
MaxTime == 2
\* fixed-point denominator of every real quantity
Scale == 100
\* bac.py: levels are -MaxLevel .. MaxLevel, rates 0 .. MaxRate, hours 0 .. MaxHours
MaxLevel == 6
MaxRate == 3
MaxHours == 3

---------------------------------------------------------------------------
\* Program constants of calculate.py.

\* HALF_LIVES["oxycodone"] = 3.2, in whole hours
HL_oxycodone == 3
\* HALF_LIVES["hydrocodone"] = 4.0
HL_hydrocodone == 4
\* HALF_LIVES["morphine"] = 2.75, in whole hours
HL_morphine == 3
\* the "dose" of every entry of medications
Dose == 5

\* The substances of the model: the two keys results is seeded with, and one
\* key of the table that results is not seeded with.
Substances == {"oxycodone", "hydrocodone", "morphine"}

\* The keys of every inner dict of results (line 63).
SeededKeys == {"oxycodone", "hydrocodone"}

\* The table of the program.
BaseTable ==
    [s \in Substances |->
        CASE s = "oxycodone" -> HL_oxycodone
          [] s = "hydrocodone" -> HL_hydrocodone
          [] OTHER -> HL_morphine]

\* The half-life tables the model runs with: the program's table and its
\* one-entry variations (an entry removed, zero, or negative).
HalfLifeTables ==
    { BaseTable,
      [s \in Substances \ {"oxycodone"} |-> BaseTable[s]],
      [s \in Substances \ {"morphine"} |-> BaseTable[s]],
      [BaseTable EXCEPT !["oxycodone"] = 0],
      [BaseTable EXCEPT !["oxycodone"] = -2] }

\* One entry of medications.
Events == [time : 0..MaxTime, dose : {Dose}, type : Substances]

RECURSIVE SeqsUpTo(_, _)
SeqsUpTo(S, n) ==
    IF n = 0 THEN {<<>>}
    ELSE LET shorter == SeqsUpTo(S, n - 1)
         IN  shorter \cup {Append(q, x) : q \in {r \in shorter : Len(r) = n - 1}, x \in S}

Range(q) == {q[k] : k \in 1..Len(q)}

\* target_times: one or two distinct instants.
TargetLists ==
    {<<a>> : a \in 0..MaxTime}
        \cup {q \in {<<a, b>> : a \in 0..MaxTime, b \in 0..MaxTime} : q[1] # q[2]}

---------------------------------------------------------------------------
\* Arithmetic.

\* Python's None.
None == <<>>

\* The largest r in 0..hi with r^n <= x  (n >= 1, x >= 0).
IRoot(n, x, hi) == CHOOSE r \in 0..hi : r^n <= x /\ (r = hi \/ (r + 1)^n > x)

Abs(x) == IF x < 0 THEN -x ELSE x

\* 0.5 ** (a / b) in fixed point: floor(Scale * 2^(-a/b)), b # 0.
\* For a/b >= 0 it is the largest r with r^|b| * 2^|a| <= Scale^|b|,
\* otherwise the largest r with r^|b| <= Scale^|b| * 2^|a|.
HalfPow(a, b) ==
    IF (a >= 0) = (b > 0)
    THEN IRoot(Abs(b), (Scale ^ Abs(b)) \div (2 ^ Abs(a)), Scale)
    ELSE IRoot(Abs(b), (Scale ^ Abs(b)) * (2 ^ Abs(a)), Scale * (2 ^ Abs(a)))

\* A plausible slip: the amount lost (remainder minus dose) for the remainder.
remaining_dose_lost(dose, hours_elapsed, half_life) ==
    dose * HalfPow(hours_elapsed, half_life) - dose * Scale

\* remaining_dose(dose, hours_elapsed, half_life), in fixed point.
remaining_dose(dose, hours_elapsed, half_life) ==
    dose * HalfPow(hours_elapsed, half_life)

---------------------------------------------------------------------------
\* State.

VARIABLES
    HALF_LIVES,     \* the table: substance -> half-life
    medications,    \* the list of events
    target_times,   \* the list of query times
    results,        \* target time -> (substance -> fixed-point amount)
    i,              \* position of the outer loop in medications
    j,              \* position of the inner loop in target_times
    pc,             \* "loop", "done" (results printed), "error" (traceback)
    error,          \* the exception that ended the script, or "none"
    bac,                        \* bac.py: level before elimination
    metabolism_rate_per_hour,   \* bac.py: rate
    time_elapsed_hours,         \* bac.py: hours
    bac_reduction,              \* bac.py line 27
    current_bac,                \* bac.py line 30
    bpc                         \* bac.py position: "off", "reduction", "current", "done"

calcVars == <<HALF_LIVES, medications, target_times, results, i, j, pc, error>>
bacVars == <<bac, metabolism_rate_per_hour, time_elapsed_hours, bac_reduction,
             current_bac, bpc>>
vars == <<calcVars, bacVars>>

---------------------------------------------------------------------------
\* calculate.py

\* A plausible slip: the inner dicts start empty.
InitResultsEmpty(times) == [t \in Range(times) |-> [s \in {} |-> 0]]

\* results = {time: {"oxycodone": 0, "hydrocodone": 0} for time in target_times}
InitResults(times) == [t \in Range(times) |-> [s \in SeededKeys |-> 0]]

\* A plausible slip: a default half-life for a missing key.
GetOrDefault(d, k) == IF k \in DOMAIN d THEN <<d[k]>> ELSE <<1>>

\* d.get(k): <<d[k]>>, or None.
Get(d, k) == IF k \in DOMAIN d THEN <<d[k]>> ELSE None

\* if half_life: None and 0 are false.
Truthy(opt) == opt # None /\ opt[1] # 0

\* A plausible slip: >= for >.
HasElapsedOrNow(hours_elapsed) == hours_elapsed >= 0

\* if hours_elapsed > 0
HasElapsed(hours_elapsed) == hours_elapsed > 0

\* A plausible slip: the running total is decayed together with the new dose.
AugAddCombined(res, t, type, dose, hours_elapsed, half_life) ==
    [res EXCEPT ![t][type] =
        ((@ + dose * Scale) * HalfPow(hours_elapsed, half_life)) \div Scale]

\* A plausible slip: every substance of the target time is increased.
AugAddAll(res, t, type, dose, hours_elapsed, half_life) ==
    [res EXCEPT ![t] =
        [s \in DOMAIN @ |-> @[s] + remaining_dose(dose, hours_elapsed, half_life)]]

\* results[target_time][med_type] += remaining_dose(...), the key being present
AugAdd(res, t, type, dose, hours_elapsed, half_life) ==
    [res EXCEPT ![t][type] = @ + remaining_dose(dose, hours_elapsed, half_life)]

med == medications[i]
med_time == med.time
med_type == med.type
target_time == target_times[j]
hours_elapsed == target_time - med_time
half_life == Get(HALF_LIVES, med_type)

InLoop == pc = "loop" /\ i <= Len(medications)

\* The next (med, target_time) pair of the nested for loops.
Advance ==
    IF j < Len(target_times)
    THEN i' = i /\ j' = j + 1
    ELSE i' = i + 1 /\ j' = 1

Init ==
    /\ HALF_LIVES \in HalfLifeTables
    /\ medications \in SeqsUpTo(Events, MaxEvents)
    /\ target_times \in TargetLists
    /\ results = InitResults(target_times)
    /\ i = 1
    /\ j = 1
    /\ pc = "loop"
    /\ error = "none"
    /\ bac = 0
    /\ metabolism_rate_per_hour = 0
    /\ time_elapsed_hours = 0
    /\ bac_reduction = 0
    /\ current_bac = 0
    /\ bpc = "off"

\* line 70 false: the event is at or after the target time
NotElapsed ==
    /\ InLoop
    /\ ~HasElapsed(hours_elapsed)
    /\ Advance
    /\ UNCHANGED <<HALF_LIVES, medications, target_times, results, pc, error>>

\* line 73 false: no half-life, or a zero one
NoHalfLife ==
    /\ InLoop
    /\ HasElapsed(hours_elapsed)
    /\ ~Truthy(half_life)
    /\ Advance
    /\ UNCHANGED <<HALF_LIVES, medications, target_times, results, pc, error>>

\* line 74
Accumulate ==
    /\ InLoop
    /\ HasElapsed(hours_elapsed)
    /\ Truthy(half_life)
    /\ med_type \in DOMAIN results[target_time]
    /\ results' = AugAdd(results, target_time, med_type, med.dose,
                         hours_elapsed, half_life[1])
    /\ Advance
    /\ UNCHANGED <<HALF_LIVES, medications, target_times, pc, error>>

\* line 74, results[target_time] has no key med_type: the read of += raises
\* KeyError and the script ends with a traceback
RaiseKeyError ==
    /\ InLoop
    /\ HasElapsed(hours_elapsed)
    /\ Truthy(half_life)
    /\ med_type \notin DOMAIN results[target_time]
    /\ pc' = "error"
    /\ error' = "KeyError"
    /\ UNCHANGED <<HALF_LIVES, medications, target_times, results, i, j>>

\* the loops are over: line 77 prints results
Finish ==
    /\ pc = "loop"
    /\ i > Len(medications)
    /\ pc' = "done"
    /\ UNCHANGED <<HALF_LIVES, medications, target_times, results, i, j, error>>

Next ==
    \/ (NotElapsed /\ UNCHANGED bacVars)
    \/ (NoHalfLife /\ UNCHANGED bacVars)
    \/ (Accumulate /\ UNCHANGED bacVars)
    \/ (RaiseKeyError /\ UNCHANGED bacVars)
    \/ (Finish /\ UNCHANGED bacVars)

Spec == Init /\ [][Next]_vars

---------------------------------------------------------------------------
\* bac.py, lines 26-30

\* Python's max(a, b): the first of the largest.
PyMax(a, b) == IF b > a THEN b ELSE a

\* A plausible slip: the clamp at zero is left out.
CurrentBacUnclamped(level, reduction) == level - reduction

\* current_bac = max(0, bac - bac_reduction)
CurrentBac(level, reduction) == PyMax(0, level - reduction)

InitBac ==
    /\ bac \in -MaxLevel..MaxLevel
    /\ metabolism_rate_per_hour \in -MaxRate..MaxRate
    /\ time_elapsed_hours \in 0..MaxHours
    /\ bac_reduction = 0
    /\ current_bac = 0
    /\ bpc = "reduction"
    /\ HALF_LIVES = BaseTable
    /\ medications = <<>>
    /\ target_times = <<0>>
    /\ results = InitResults(target_times)
    /\ i = 1
    /\ j = 1
    /\ pc = "off"
    /\ error = "none"

\* bac_reduction = metabolism_rate_per_hour * time_elapsed_hours
ComputeReduction ==
    /\ bpc = "reduction"
    /\ bac_reduction' = metabolism_rate_per_hour * time_elapsed_hours
    /\ bpc' = "current"
    /\ UNCHANGED <<bac, metabolism_rate_per_hour, time_elapsed_hours, current_bac>>

\* current_bac = max(0, bac - bac_reduction)
ComputeCurrent ==
    /\ bpc = "current"
    /\ current_bac' = CurrentBac(bac, bac_reduction)
    /\ bpc' = "done"
    /\ UNCHANGED <<bac, metabolism_rate_per_hour, time_elapsed_hours, bac_reduction>>

NextBac ==
    \/ (ComputeReduction /\ UNCHANGED calcVars)
    \/ (ComputeCurrent /\ UNCHANGED calcVars)

SpecBac == InitBac /\ [][NextBac]_vars

---------------------------------------------------------------------------
\* Properties.

\* The sum, over the events 1..k of substance s before t, of each event's own
\* decayed remainder at t.
RECURSIVE SumEvents(_, _, _)
SumEvents(k, t, s) ==
    IF k = 0 THEN 0
    ELSE SumEvents(k - 1, t, s)
         + (IF medications[k].type = s /\ medications[k].time < t
            THEN remaining_dose(medications[k].dose, t - medications[k].time,
                                HALF_LIVES[s])
            ELSE 0)

Usable(s) == s \in DOMAIN HALF_LIVES /\ HALF_LIVES[s] # 0

\* The entries of results that a step changes.
Changed ==
    {e \in {<<t, s>> : t \in DOMAIN results, s \in Substances} :
        /\ e[2] \in DOMAIN results[e[1]]
        /\ results'[e[1]][e[2]] # results[e[1]][e[2]]}

\* C1: processing an event whose time is at or after a target time t
\* (equal included) leaves results[t] unchanged.
C1_NoContributionAtOrAfter ==
    [][InLoop =>
        \A t \in DOMAIN results : med_time >= t => results'[t] = results[t]]_vars

\* An event at exactly a target time, of a seeded substance with a usable
\* half-life, has been processed and the entry is still zero.
C1_Witness ==
    /\ pc = "done"
    /\ \E k \in 1..Len(medications) :
        /\ medications[k].time \in DOMAIN results
        /\ medications[k].type \in SeededKeys
        /\ Usable(medications[k].type)
        /\ results[medications[k].time][medications[k].type] = 0

\* C2: when the loop has finished, every entry results[t][s] of a substance
\* with a half-life is the sum of the remainders of the events of s before t,
\* each decayed on its own.
C2_PerEventSum ==
    pc = "done" =>
        \A t \in DOMAIN results : \A s \in DOMAIN results[t] :
            Usable(s) => results[t][s] = SumEvents(Len(medications), t, s)

\* Two events of one substance at different times before a target time.
C2_Witness ==
    /\ pc = "done"
    /\ \E t \in DOMAIN results : \E k, l \in 1..Len(medications) :
        /\ medications[k].type = medications[l].type
        /\ medications[k].type \in DOMAIN results[t]
        /\ Usable(medications[k].type)
        /\ medications[k].time < medications[l].time
        /\ medications[l].time < t
        /\ results[t][medications[k].type] > 0

\* C3 (as claimed): an event of a substance with a positive half-life in the
\* table, before the target time, is added to the substance's entry, a missing
\* entry counting as zero, and the step does not end in an error.
C3_AddsDefaultingMissing ==
    [][(InLoop /\ HasElapsed(hours_elapsed) /\ med_type \in DOMAIN HALF_LIVES
          /\ HALF_LIVES[med_type] > 0) =>
        /\ pc' # "error"
        /\ error' = "none"
        /\ med_type \in DOMAIN results'[target_time]
        /\ results'[target_time][med_type] =
              (IF med_type \in DOMAIN results[target_time]
               THEN results[target_time][med_type] ELSE 0)
              + remaining_dose(med.dose, hours_elapsed, HALF_LIVES[med_type])]_vars

\* C4 (as claimed): when the script has ended, with or without an error, the
\* results hold the contribution of every event of a substance with a half-life.
C4_BatchNotAborted ==
    pc \in {"done", "error"} =>
        \A t \in DOMAIN results : \A s \in DOMAIN results[t] :
            Usable(s) => results[t][s] = SumEvents(Len(medications), t, s)

\* C5 (as claimed): for an event before the target time whose substance has a
\* half-life <= 0, nothing is added and the failure is reported.
C5_InvalidHalfLifeReported ==
    [][(InLoop /\ HasElapsed(hours_elapsed) /\ med_type \in DOMAIN HALF_LIVES
          /\ HALF_LIVES[med_type] <= 0) =>
        (results' = results /\ error' # "none")]_vars

\* C6: with no events, every target time maps to a dict holding both
\* requested substances at zero, in every state of the run.
C6_EmptyEventsAllZero ==
    Len(medications) = 0 =>
        \A k \in 1..Len(target_times) :
            /\ target_times[k] \in DOMAIN results
            /\ DOMAIN results[target_times[k]] = {"oxycodone", "hydrocodone"}
            /\ \A s \in {"oxycodone", "hydrocodone"} : results[target_times[k]][s] = 0

\* The loop has run to its end over an empty list.
C6_Witness == Len(medications) = 0 /\ pc = "done" /\ error = "none"

\* C7: the doses being non-negative, every entry of results is >= 0 in every
\* state, and no step decreases an entry.
C7_NonNegativeMonotone ==
    /\ [](\A t \in DOMAIN results : \A s \in DOMAIN results[t] : results[t][s] >= 0)
    /\ [][\A t \in DOMAIN results : \A s \in DOMAIN results[t] :
            results'[t][s] >= results[t][s]]_vars

\* Two events of non-negative dose and positive half-life have been
\* accumulated into one entry.
C7_Witness ==
    /\ pc = "done"
    /\ \A k \in 1..Len(medications) : medications[k].dose >= 0
    /\ \A s \in DOMAIN HALF_LIVES : HALF_LIVES[s] > 0
    /\ \E t \in DOMAIN results : \E s \in DOMAIN results[t] :
        results[t][s] > Dose * Scale

\* C8: the level after elimination is never negative: it is 0 when
\* rate * hours >= level, and level - rate * hours otherwise.
C8_LinearReduceClamped ==
    bpc = "done" =>
        /\ current_bac >= 0
        /\ (metabolism_rate_per_hour * time_elapsed_hours >= bac => current_bac = 0)
        /\ (metabolism_rate_per_hour * time_elapsed_hours < bac =>
                current_bac = bac - metabolism_rate_per_hour * time_elapsed_hours)

\* The reduction exceeds a positive level: the clamp decides the result.
C8_Witness ==
    /\ bpc = "done"
    /\ bac > 0
    /\ metabolism_rate_per_hour * time_elapsed_hours > bac
    /\ current_bac = 0

\* C9: a step on an event whose substance is not in the half-life table
\* leaves results unchanged, raises no error, and moves to the next pair.
C9_UnknownSubstanceSkipped ==
    [][(InLoop /\ med_type \notin DOMAIN HALF_LIVES) =>
        /\ results' = results
        /\ pc' = "loop"
        /\ error' = "none"
        /\ \/ (j < Len(target_times) /\ i' = i /\ j' = j + 1)
           \/ (j = Len(target_times) /\ i' = i + 1 /\ j' = 1)]_vars

\* An event of an unknown substance, before a target time, was followed by
\* another event, and the loop ran to its end.
C9_Witness ==
    /\ pc = "done"
    /\ Len(medications) >= 2
    /\ medications[1].type \notin DOMAIN HALF_LIVES
    /\ \E t \in DOMAIN results : medications[1].time < t
    /\ \E t \in DOMAIN results : results[t][medications[2].type] > 0

\* C10: a step changes at most one entry of results, the one of the event's
\* substance at a target time after the event; the keys of results and of
\* its dicts, the events, the target times and the table never change.
C10_Frame ==
    [][/\ DOMAIN results' = DOMAIN results
       /\ \A t \in DOMAIN results : DOMAIN results'[t] = DOMAIN results[t]
       /\ medications' = medications
       /\ target_times' = target_times
       /\ HALF_LIVES' = HALF_LIVES
       /\ Cardinality(Changed) <= 1
       /\ \A e \in Changed :
            InLoop /\ e[2] = med_type /\ e[1] > med_time /\ e[1] = target_time]_vars

\* One entry was increased while the other substance of the same target time
\* stayed at zero.
C10_Witness ==
    /\ pc = "done"
    /\ \E t \in DOMAIN results :
        results[t]["oxycodone"] > 0 /\ results[t]["hydrocodone"] = 0

=============================================================================
